---- MODULE Spec2Model ----
(***************************************************************************)
(* Report pipeline of routes/search.py: source discovery, the bounded      *)
(* parallel fetch-or-generate of per-video tutorials (process_video behind *)
(* a BoundedSemaphore in a ThreadPoolExecutor, collected with              *)
(* as_completed(timeout=90)), report synthesis and citation rewriting, for *)
(* the /deep_research and /search_youtube handlers, together with the      *)
(* notes/<video_id> store they share with /generate_tutorial.              *)
(***************************************************************************)
EXTENDS Integers, Sequences, FiniteSets, TLC

\* ------------------------------------------------------------------ bounds
\* Longest list of videos discovery returns in the model.
MaxVideos == 2
\* Longest synthesized text, counted in links, and longest list of tutorials
\* handed to report building on its own.
MaxLinks == 2
MaxSources == 3
\* Longest markdown handed to title extraction, in lines.
MaxLines == 3
\* Most digits of the N of a [sec:N] placeholder.
MaxDigits == 4
\* /create_api_key requests one user makes.
MaxKeyRequests == 3
\* Largest number of units handed to the semaphore harness.
MaxHarnessUnits == 27
\* process_video calls and /generate_tutorial requests sharing the store.
MaxCacheCalls == 1
MaxTutorialRequests == 1
\* Largest max_retries handed to scrape_youtube_links.
MaxRetries == 2
\* /deep_research requests made with one API key.
MaxResearchRequests == 2

\* ------------------------------------------------------- program constants
\* max_concurrent = 25: the permits of the BoundedSemaphore.
max_concurrent == 25

\* first_line[:100]: the longest title taken from a first line.
TitleLimit == 100

\* [:25]: the most video elements scrape_youtube_links reads from one page.
PageLimit == 25

\* credits_for_this_call = 100: what one /deep_research call costs.
credits_for_this_call == 100

\* max_retries = 3: the attempts stripe_webhook makes to process an event.
max_retries == 3

\* credit_limit: 500 by default, 5000 and 15000 for the two larger plans.
CreditLimits == {500, 5000, 15000}

\* The 11-character video ids of the model.
VideoIds == {"a", "b"}

VARIABLES
    endpoint,       \* the handler serving the request
    phase,          \* the handler's position
    videos,         \* the list discovery returned (video ids, one per (href, title))
    unit,           \* per submitted future: position in process_video and its result
    semaphore,      \* the BoundedSemaphore's counter (free permits)
    fin0,           \* as_completed: futures found finished at its start, not yet yielded
    queue,          \* as_completed: waiter.finished_futures, in completion order
    yielded,        \* futures the collecting loop has consumed
    all_tutorials,  \* the dicts kept: video (index into videos), url (its id), content
    timedOut,       \* as_completed raised TimeoutError
    lateUnits,      \* the futures still unfinished when it did
    store,          \* S3 bucket, keys notes/<video_id>
    genCalls,       \* per video id: TextGenerator calls made by generate_tutorial
    transcriptCalls,\* per video id: TranscriptSource calls
    putCalls,       \* per video id: put_object calls on notes/<video_id>
    synthCalls,     \* report-synthesis TextGenerator calls of the request
    response_text,  \* the synthesized text, once synthesis has returned
    report,         \* the Report built from it
    idx,            \* /search_youtube's sequential loop: the video being processed
    regular,        \* /search_youtube went on to its regular search
    outcome,        \* what the handler returned
    gt,             \* a /generate_tutorial request: its video id, position and tutorial
    gtRequests,     \* /generate_tutorial requests started so far
    hQueued,        \* semaphore harness: units submitted, not yet past acquire
    hInFlight,      \* semaphore harness: units inside process_video
    discoverCalls,  \* source discoveries made for the request (scrape or API search)
    api_keys,       \* rows of table api_keys for the user of /create_api_key
    keyReq,         \* /create_api_key requests of that user: position and status
    markdown_content, \* title extraction: the lines of the rewritten markdown
    title,          \* title extraction: the title taken from them
    placeholder,    \* replace_sec_links: the [sec:N] match and the video id
    sec_link,       \* replace_sec_links: the link it returns
    log,            \* history: the units in the order they completed, with a 0
                    \* where as_completed began, kept while results are collected
    scrape,         \* a call of scrape_youtube_links: its loop and what it returned
    api_calls,      \* table api_calls: SUM(credits_used) of the key this month
    credit_limit,   \* the credit limit of the key's plan
    drReq,          \* /deep_research requests with the key: position, the
                    \* usage read, status returned and credits recorded
    event,          \* stripe_webhook: the event received
    wpc,            \* stripe_webhook: where the handler is
    retry_count,    \* stripe_webhook: failed attempts so far
    attempts,       \* history: passes of the processing loop begun
    conn_aborted,   \* the request's connection is in a failed transaction
    processing_status,  \* webhook_logs.processing_status of the request's row
    response_status \* stripe_webhook: the HTTP status returned

vars == << endpoint, phase, videos, unit, semaphore, fin0, queue, yielded,
           all_tutorials, timedOut, lateUnits, store, genCalls, transcriptCalls, putCalls,
           synthCalls, response_text, report, idx, regular, outcome, gt, gtRequests,
           hQueued, hInFlight, discoverCalls, api_keys, keyReq, markdown_content,
           title, placeholder, sec_link, log, scrape, api_calls, credit_limit,
           drReq, event, wpc, retry_count, attempts, conn_aborted, processing_status,
           response_status >>

\* Left alone by the report handlers.
harness == << gtRequests, hQueued, hInFlight >>

\* The credit accounting of /deep_research.
crediting == << api_calls, credit_limit, drReq >>

\* stripe_webhook.
webhooks == << event, wpc, retry_count, attempts, conn_aborted, processing_status,
               response_status >>

\* scrape_youtube_links and the handlers modelled on their own.
aside == << scrape, crediting, webhooks >>

\* The handler and the functions modelled apart from the report pipeline.
apart == << api_keys, keyReq, markdown_content, title, placeholder, sec_link, aside >>

\* The variables of the report pipeline and of /generate_tutorial.
reports == << gt, harness, videos, unit, semaphore, fin0, queue, yielded,
              all_tutorials, timedOut, lateUnits, store, genCalls, transcriptCalls,
              putCalls, synthCalls, response_text, report, idx, regular, outcome,
              discoverCalls, log >>

\* The variables of title extraction, replace_sec_links and /create_api_key.
functions == << api_keys, keyReq, markdown_content, title, placeholder, sec_link >>

\* ------------------------------------------------------------------- values
NoSuchKey == [kind |-> "NoSuchKey", n |-> 0]
NoContent == [kind |-> "none", n |-> 0]
\* A tutorial generate_tutorial derived; n tells derivations of one id apart
\* (0: stored before the model starts).
Tutorial(n) == [kind |-> "tutorial", n |-> n]
\* generate_tutorial's return value when the model returned no response.
NoTutorialGenerated == [kind |-> "No tutorial generated.", n |-> 0]

\* process_video's return value {'title', 'url', 'content'} for the video-th video.
Dict(video, vid, content) == [video |-> video, vid |-> vid, content |-> content]

Units == DOMAIN unit
Done(i) == unit[i].pc = "done"
InFlight(i) == unit[i].pc \in {"running", "miss", "put"}

\* A title: the line of the markdown it was taken from (0: none) and its length;
\* src "default" is f"Research Report: {search_query[:50]}".
Title(src, line, len) == [src |-> src, line |-> line, len |-> len]
NoTitle == Title("unset", 0, 0)
NoPlaceholder == [vid |-> "a", digits |-> << >>]
NoSecLink == [units |-> << >>, values |-> << >>, vid |-> "a", t |-> 0]

\* Nothing is going on in the parts modelled apart.
\* No call of scrape_youtube_links.
NoScrape ==
    [max_retries |-> 0, attempt |-> 0, results |-> 0, pc |-> "idle", returned |-> 0,
     failed |-> FALSE]

CreditingIdle ==
    /\ api_calls = 0
    /\ credit_limit = 500
    /\ drReq = << >>

\* An event: its type, subscription.cancel_at_period_end (True, False or
\* neither) and whether the customer has a cancelled subscription to renew.
Event(type, cancel, renews) ==
    [type |-> type, cancel_at_period_end |-> cancel, renews |-> renews]

NoEvent == Event("none", "unset", FALSE)

WebhooksIdle ==
    /\ event = NoEvent
    /\ wpc = "idle"
    /\ retry_count = 0
    /\ attempts = 0
    /\ conn_aborted = FALSE
    /\ processing_status = "no row"
    /\ response_status = 0

AsideIdle ==
    /\ scrape = NoScrape
    /\ CreditingIdle
    /\ WebhooksIdle

ApartIdle ==
    /\ AsideIdle
    /\ api_keys = 0
    /\ keyReq = << >>
    /\ markdown_content = << >>
    /\ title = NoTitle
    /\ placeholder = NoPlaceholder
    /\ sec_link = NoSecLink

\* An acquire that takes two permits.
SemAcquireTwo ==
    /\ semaphore > 1
    /\ semaphore' = semaphore - 2

\* ------------------------------------------------------ the limiter (threading)
\* A limiter that hands out a permit without waiting for one to be free.
SemAcquireNoWait == semaphore' = semaphore - 1

\* BoundedSemaphore.acquire, entered by "with semaphore": blocks while no permit is free.
SemAcquire ==
    /\ semaphore > 0
    /\ semaphore' = semaphore - 1

\* A release that gives no permit back.
SemReleaseKeeps == UNCHANGED semaphore

\* BoundedSemaphore.release, on leaving "with semaphore", however the body ended.
SemRelease == semaphore' = semaphore + 1

\* --------------------------------------------------------------- discovery
\* scrape_youtube_links: up to 25 (href, title) pairs in render order, not
\* deduplicated; [] when the only attempt fails or nothing rendered.
ScrapeResults == UNION { [1 .. n -> VideoIds] : n \in 0 .. MaxVideos }

Discover ==
    /\ phase = "scrape"
    /\ \E vs \in ScrapeResults : videos' = vs
    /\ phase' = "executor"
    /\ discoverCalls' = discoverCalls + 1
    /\ UNCHANGED << gt, harness, endpoint, unit, semaphore, fin0, queue, yielded,
                    all_tutorials, timedOut, lateUnits, store, genCalls,
                    transcriptCalls, putCalls, synthCalls, response_text, report, idx,
                    regular, outcome, apart, log >>

\* An exception reaching the handler's outermost "except Exception": both handlers
\* answer 500 'Internal server error'.
HandlerException ==
    /\ outcome' = "Internal server error"
    /\ phase' = "responded"

\* ThreadPoolExecutor(max_workers=len(videos)) raises ValueError when len(videos) = 0;
\* otherwise every video is submitted, each to a worker thread of its own.
CreateExecutor ==
    /\ phase = "executor"
    /\ IF Len(videos) = 0
          THEN /\ HandlerException
               /\ UNCHANGED << unit, semaphore >>
          ELSE /\ unit' = [i \in 1 .. Len(videos) |->
                              [pc |-> "queued", tutorial |-> NoContent, result |-> "pending"]]
               /\ semaphore' = max_concurrent
               /\ phase' = "submitted"
               /\ UNCHANGED outcome
    /\ UNCHANGED << gt, harness, endpoint, videos, fin0, queue, yielded, all_tutorials,
                    timedOut, lateUnits, store, genCalls, transcriptCalls, putCalls,
                    synthCalls, response_text, report, idx, regular, discoverCalls,
                    apart, log >>

\* ------------------------------------------------------------ process_video
Aggregating == phase \in {"submitted", "collecting", "shutdown"}

\* process_with_semaphore entering "with semaphore".
Acquire(i) ==
    /\ Aggregating
    /\ unit[i].pc = "queued"
    /\ SemAcquire
    /\ unit' = [unit EXCEPT ![i].pc = "running"]
    /\ UNCHANGED << gt, harness, endpoint, phase, videos, fin0, queue, yielded,
                    all_tutorials, timedOut, lateUnits, store, genCalls,
                    transcriptCalls, putCalls, synthCalls, response_text, report, idx,
                    regular, outcome, discoverCalls, apart, log >>

\* process_video returns (a dict, or None from its "except Exception"), the permit
\* is released and the future completes; an installed as_completed waiter is told.
Finish(i, tutorial, result) ==
    /\ unit' = [unit EXCEPT ![i] = [pc |-> "done", tutorial |-> tutorial, result |-> result]]
    /\ SemRelease
    /\ queue' = IF phase = "collecting" THEN Append(queue, i) ELSE queue
    /\ log' = IF timedOut THEN log ELSE Append(log, i)

\* A process_video that does not consult the store and always derives.
LookupIgnoringStore(i) ==
    /\ Aggregating
    /\ unit[i].pc = "running"
    /\ unit' = [unit EXCEPT ![i].pc = "miss"]
    /\ UNCHANGED << gt, harness, endpoint, phase, videos, semaphore, fin0, queue,
                    yielded, all_tutorials, timedOut, lateUnits, store, genCalls,
                    transcriptCalls, putCalls, synthCalls, response_text, report, idx,
                    regular, outcome, discoverCalls, apart, log >>

\* s3_client.get_object on notes/<video_id>: the stored body, NoSuchKey, or another error.
Lookup(i) ==
    /\ Aggregating
    /\ unit[i].pc = "running"
    /\ \/ /\ store[videos[i]] # NoSuchKey
          /\ Finish(i, store[videos[i]], "dict")
       \/ /\ store[videos[i]] = NoSuchKey
          /\ unit' = [unit EXCEPT ![i].pc = "miss"]
          /\ UNCHANGED << semaphore, queue, log >>
       \/ Finish(i, NoContent, "None")
    /\ UNCHANGED << gt, harness, endpoint, phase, videos, fin0, yielded, all_tutorials,
                    timedOut, lateUnits, store, genCalls, transcriptCalls, putCalls,
                    synthCalls, response_text, report, idx, regular, outcome,
                    discoverCalls, apart >>

\* A process_video that stores a marker under the id when the transcript
\* cannot be fetched.
DeriveRecordingFailure(i) ==
    /\ Aggregating
    /\ unit[i].pc = "miss"
    /\ transcriptCalls' = [transcriptCalls EXCEPT ![videos[i]] = @ + 1]
    /\ store' = [store EXCEPT ![videos[i]] = NoTutorialGenerated]
    /\ Finish(i, NoContent, "None")
    /\ UNCHANGED << gt, harness, endpoint, phase, videos, fin0, yielded, all_tutorials,
                    timedOut, lateUnits, genCalls, putCalls, synthCalls, response_text,
                    report, idx, regular, outcome, discoverCalls, apart >>

\* transcribe_youtube_video: get_transcript, then generate_tutorial's one
\* generate_content call.
Derive(i) ==
    /\ Aggregating
    /\ unit[i].pc = "miss"
    /\ transcriptCalls' = [transcriptCalls EXCEPT ![videos[i]] = @ + 1]
    /\ \/ /\ Finish(i, NoContent, "None")             \* get_transcript raises
          /\ UNCHANGED genCalls
       \/ /\ genCalls' = [genCalls EXCEPT ![videos[i]] = @ + 1]
          /\ \/ Finish(i, NoContent, "None")          \* generate_content or .text raises
             \/ /\ \E t \in {Tutorial(genCalls'[videos[i]]), NoTutorialGenerated} :
                       unit' = [unit EXCEPT ![i] = [@ EXCEPT !.pc = "put", !.tutorial = t]]
                /\ UNCHANGED << semaphore, queue, log >>
    /\ UNCHANGED << gt, harness, endpoint, phase, videos, fin0, yielded, all_tutorials,
                    timedOut, lateUnits, store, putCalls, synthCalls, response_text,
                    report, idx, regular, outcome, discoverCalls, apart >>

\* A put_object that takes the key from elsewhere than the call's own video id.
PutUnderAnyKey(i) ==
    /\ Aggregating
    /\ unit[i].pc = "put"
    /\ putCalls' = [putCalls EXCEPT ![videos[i]] = @ + 1]
    /\ \E v \in VideoIds : store' = [store EXCEPT ![v] = unit[i].tutorial]
    /\ Finish(i, unit[i].tutorial, "dict")
    /\ UNCHANGED << gt, harness, endpoint, phase, videos, fin0, yielded, all_tutorials,
                    timedOut, lateUnits, genCalls, transcriptCalls, synthCalls,
                    response_text, report, idx, regular, outcome, discoverCalls,
                    apart >>

\* s3_client.put_object of the new tutorial, then the return.
Put(i) ==
    /\ Aggregating
    /\ unit[i].pc = "put"
    /\ putCalls' = [putCalls EXCEPT ![videos[i]] = @ + 1]
    /\ \/ /\ store' = [store EXCEPT ![videos[i]] = unit[i].tutorial]
          /\ Finish(i, unit[i].tutorial, "dict")
       \/ /\ Finish(i, NoContent, "None")             \* put_object raises
          /\ UNCHANGED store
    /\ UNCHANGED << gt, harness, endpoint, phase, videos, fin0, yielded, all_tutorials,
                    timedOut, lateUnits, genCalls, transcriptCalls, synthCalls,
                    response_text, report, idx, regular, outcome, discoverCalls,
                    apart >>

\* ------------------------------------------------- the collecting loop
\* The first next() on as_completed(future_to_video, timeout=90): the futures
\* already finished are set aside (a set: they are yielded in no particular
\* order) and a waiter is installed on the others.
AsCompletedStart ==
    /\ phase = "submitted"
    /\ fin0' = { i \in Units : Done(i) }
    /\ queue' = << >>
    /\ log' = Append(log, 0)
    /\ phase' = "collecting"
    /\ UNCHANGED << gt, harness, endpoint, videos, unit, semaphore, yielded,
                    all_tutorials, timedOut, lateUnits, store, genCalls,
                    transcriptCalls, putCalls, synthCalls, response_text, report, idx,
                    regular, outcome, discoverCalls, apart >>

\* A collecting loop in which a failed unit discards what was collected so far.
CollectLatestFirst ==
    /\ phase = "collecting"
    /\ \E f \in Units :
          /\ IF fin0 # {}
                THEN f \in fin0 /\ fin0' = fin0 \ {f} /\ UNCHANGED queue
                ELSE queue # << >> /\ f = queue[Len(queue)]
                     /\ queue' = SubSeq(queue, 1, Len(queue) - 1)
                     /\ UNCHANGED fin0
          /\ yielded' = yielded \cup {f}
          /\ all_tutorials' = IF unit[f].result = "dict"
                                 THEN Append(all_tutorials, Dict(f, videos[f], unit[f].tutorial))
                                 ELSE all_tutorials
    /\ UNCHANGED << gt, harness, endpoint, phase, videos, unit, semaphore, timedOut,
                    lateUnits, store, genCalls, transcriptCalls, putCalls, synthCalls,
                    response_text, report, idx, regular, outcome, discoverCalls, apart,
                    log >>

CollectFailureDiscards ==
    /\ phase = "collecting"
    /\ \E f \in Units :
          /\ IF fin0 # {}
                THEN f \in fin0 /\ fin0' = fin0 \ {f} /\ UNCHANGED queue
                ELSE queue # << >> /\ f = Head(queue) /\ queue' = Tail(queue)
                     /\ UNCHANGED fin0
          /\ yielded' = yielded \cup {f}
          /\ all_tutorials' = IF unit[f].result = "dict"
                                 THEN Append(all_tutorials, Dict(f, videos[f], unit[f].tutorial))
                                 ELSE << >>
    /\ UNCHANGED << gt, harness, endpoint, phase, videos, unit, semaphore, timedOut,
                    lateUnits, store, genCalls, transcriptCalls, putCalls, synthCalls,
                    response_text, report, idx, regular, outcome, discoverCalls, apart,
                    log >>

\* One turn of "for future in as_completed(...)": future.result() is None or a
\* dict, and a dict is appended to all_tutorials.
Collect ==
    /\ phase = "collecting"
    /\ \E f \in Units :
          /\ IF fin0 # {}
                THEN f \in fin0 /\ fin0' = fin0 \ {f} /\ UNCHANGED queue
                ELSE queue # << >> /\ f = Head(queue) /\ queue' = Tail(queue)
                     /\ UNCHANGED fin0
          /\ yielded' = yielded \cup {f}
          /\ all_tutorials' = IF unit[f].result = "dict"
                                 THEN Append(all_tutorials, Dict(f, videos[f], unit[f].tutorial))
                                 ELSE all_tutorials
    /\ UNCHANGED << gt, harness, endpoint, phase, videos, unit, semaphore, timedOut,
                    lateUnits, store, genCalls, transcriptCalls, putCalls, synthCalls,
                    response_text, report, idx, regular, outcome, discoverCalls, apart,
                    log >>

\* as_completed has yielded every future: the loop ends and the executor's
\* "with" block is left with nothing running; the futures are not used again.
ExitExecutor ==
    /\ phase = "collecting"
    /\ yielded = Units
    /\ phase' = "aggregated"
    /\ unit' = << >>
    /\ yielded' = {}
    /\ log' = << >>
    /\ UNCHANGED << gt, harness, endpoint, videos, semaphore, fin0, queue,
                    all_tutorials, timedOut, lateUnits, store, genCalls,
                    transcriptCalls, putCalls, synthCalls, response_text, report, idx,
                    regular, outcome, discoverCalls, apart >>

\* The 90 seconds are over with futures still pending: as_completed raises
\* TimeoutError from the "for" statement, outside the loop body's try.
Timeout ==
    /\ phase = "collecting"
    /\ fin0 = {}
    /\ yielded # Units
    /\ timedOut' = TRUE
    /\ lateUnits' = { i \in Units : ~Done(i) }
    /\ phase' = "shutdown"
    /\ log' = << >>
    /\ UNCHANGED << gt, harness, endpoint, videos, unit, semaphore, fin0, queue,
                    yielded, all_tutorials, store, genCalls, transcriptCalls, putCalls,
                    synthCalls, response_text, report, idx, regular, outcome,
                    discoverCalls, apart >>

\* ThreadPoolExecutor.__exit__ is shutdown(wait=True): the exception leaves the
\* "with" block once every worker has finished, and then reaches the handler.
ShutdownWait ==
    /\ phase = "shutdown"
    /\ \A i \in Units : Done(i)
    /\ HandlerException
    /\ UNCHANGED << gt, harness, endpoint, videos, unit, semaphore, fin0, queue,
                    yielded, all_tutorials, timedOut, lateUnits, store, genCalls,
                    transcriptCalls, putCalls, synthCalls, response_text, report, idx,
                    regular, discoverCalls, apart, log >>

\* ------------------------------------------------------ citation rewriting
\* The synthesized markdown, as the sequence of its inline links. shape "ts": the
\* link matches \[[^\]]+?\]\(https://youtu\.be/[^)]+\?t=\d+\); "other": it does not.
\* label "plain": a time display such as 3m45s; "paren": a label holding "(...)".
\* num: the source number prefixed to the label (0: none).
Link(shape, label, vid) ==
    [shape |-> shape, label |-> label, vid |-> vid, num |-> 0, target |-> "url"]

RawLinks ==
    { Link("ts", "plain", v) : v \in VideoIds }
        \cup { Link("other", "plain", "a"), Link("ts", "paren", "a"),
               Link("ts", "lparen", "a") }

RawTexts == UNION { [1 .. n -> RawLinks] : n \in 0 .. MaxLinks }

\* The video ids of the tutorials kept, in all_tutorials order (tutorial['url']).
TutorialVids(tuts) == [k \in 1 .. Len(tuts) |-> tuts[k].vid]

Max(S) == CHOOSE m \in S : \A x \in S : x <= m

\* A numbering that starts one too high.
video_id_to_source_from2(tvids) ==
    [v \in { tvids[k] : k \in 1 .. Len(tvids) } |->
        Max({ k \in 1 .. Len(tvids) : tvids[k] = v }) + 1]

\* video_id_to_source: "video_id_to_source[video_id] = i" for i = 1, 2, ...: a later
\* tutorial of the same video id replaces the number of an earlier one.
video_id_to_source(tvids) ==
    [v \in { tvids[k] : k \in 1 .. Len(tvids) } |->
        Max({ k \in 1 .. Len(tvids) : tvids[k] = v })]

\* add_source_number, called by re.sub on each match: '[(n) label](url_part)' when
\* the video id is numbered; url_part is what r'\((.*?)\)' finds first in the match.
\* A label holding "(...)" ("paren") makes url_part that text, which fails the
\* 'youtu.be' test, and the match is returned as it is. A label holding "(" and no
\* ")" ("lparen") makes url_part run from inside the label to the end of the
\* target: it passes the test and becomes the new target.
add_source_number(link, map) ==
    IF link.vid \notin DOMAIN map \/ link.label = "paren"
       THEN link
       ELSE [link EXCEPT !.num = map[link.vid],
                         !.target = IF link.label = "lparen"
                                       THEN "label_and_url" ELSE @]

\* re.sub(pattern, add_source_number, response.text.strip())
re_sub(text, map) ==
    [k \in 1 .. Len(text) |->
        IF text[k].shape = "ts" THEN add_source_number(text[k], map) ELSE text[k]]

\* A sources list with one entry per distinct video id, in order of first appearance.
SourcesListDeduplicated(tuts) ==
    LET first == { k \in 1 .. Len(tuts) : \A j \in 1 .. k - 1 : tuts[j].vid # tuts[k].vid }
        nth[n \in 0 .. Len(tuts)] ==
            IF n = 0 THEN 0
               ELSE CHOOSE k \in first :
                        k > nth[n - 1] /\ \A j \in first : j > nth[n - 1] => k <= j
    IN  [n \in 1 .. Cardinality(first) |->
            [number |-> n, title |-> tuts[nth[n]].video, vid |-> tuts[nth[n]].vid]]

\* The sources list: one entry per tutorial kept, numbered by enumerate(..., 1),
\* with the tutorial's title (that of the video-th discovered pair) and its video id.
SourcesList(tuts) ==
    [k \in 1 .. Len(tuts) |->
        [number |-> k, title |-> tuts[k].video, vid |-> tuts[k].vid]]

\* A '## Sources' section whose entries link to the sources' own urls.
SourcesSectionOfUrls(sources) ==
    [k \in 1 .. Len(sources) |->
        [number |-> sources[k].number, title |-> sources[k].title,
         target |-> [site |-> "youtube.com/watch", vid |-> sources[k].vid]]]

\* The '## Sources' section search_youtube_endpoint appends to the content: per
\* source a line '<number>. [<title>](<base_url>/?v=<video_id>)', the target
\* being the note page of the source's video id.
SourcesSection(sources) ==
    [k \in 1 .. Len(sources) |->
        [number |-> sources[k].number, title |-> sources[k].title,
         target |-> [site |-> "base_url", vid |-> sources[k].vid]]]

NoReport == [made |-> FALSE, content |-> << >>, sources |-> << >>, section |-> << >>]

BuildReport(text, tuts) ==
    [made |-> TRUE,
     content |-> re_sub(text, video_id_to_source(TutorialVids(tuts))),
     sources |-> SourcesList(tuts),
     section |-> << >>]

\* ---------------------------------------------------------------- synthesis
\* model.generate_content(prompt) and response.text: an exception, a falsy
\* response or text, whitespace only, or markdown.
Unset == [kind |-> "unset", text |-> << >>]
SynthTexts == { << >>, << Link("ts", "plain", "a") >> }
SynthResults ==
    { [kind |-> k, text |-> << >>] : k \in {"raise", "None", "blank"} }
        \cup { [kind |-> "text", text |-> t] : t \in SynthTexts }

\* The handler runs off its end: the view function returns None.
ReturnNone ==
    /\ outcome' = IF endpoint = "deep_research" THEN "None" ELSE "Failed to generate report"
    /\ phase' = "responded"

\* "if all_tutorials:" of deep_research and of fast_search_youtube, to the return.
\* fast_search_youtube's None or {'error': ...} makes /search_youtube answer
\* 500 'Failed to generate report'; its dict goes on to be saved.
SynthesizeFrom(results) ==
    /\ phase = "aggregated"
    /\ IF all_tutorials = << >>
          THEN /\ ReturnNone
               /\ UNCHANGED << synthCalls, response_text, report >>
          ELSE /\ synthCalls' = synthCalls + 1
               /\ \E r \in results :
                     /\ response_text' = r
                     /\ CASE r.kind = "raise" -> HandlerException /\ UNCHANGED report
                          [] r.kind = "None" -> ReturnNone /\ UNCHANGED report
                          [] r.kind = "blank" ->
                               /\ outcome' = "Failed to generate report"
                               /\ phase' = "responded"
                               /\ UNCHANGED report
                          [] OTHER ->
                               /\ report' = BuildReport(r.text, all_tutorials)
                               /\ IF endpoint = "deep_research"
                                     THEN outcome' = "Report" /\ phase' = "responded"
                                     ELSE phase' = "save" /\ UNCHANGED outcome
    /\ UNCHANGED << gt, harness, endpoint, videos, unit, semaphore, fin0, queue,
                    yielded, all_tutorials, timedOut, lateUnits, store, genCalls,
                    transcriptCalls, putCalls, idx, regular, discoverCalls, apart,
                    log >>

Synthesize == SynthesizeFrom(SynthResults)

\* --------------------------------------- /search_youtube after the fast search
\* search_youtube_endpoint saving fast_search_youtube's report (user_reports row,
\* reports/<id> object) and answering 200; an exception while saving is logged and
\* the handler goes on to its regular search.
SaveReport ==
    /\ phase = "save"
    /\ \/ /\ report' = [report EXCEPT !.section = SourcesSection(report.sources)]
          /\ outcome' = "Report"
          /\ phase' = "responded"
          /\ UNCHANGED << response_text, regular >>
       \/ /\ phase' = "regular_search"
          /\ regular' = TRUE
          /\ report' = NoReport
          /\ response_text' = Unset
          /\ UNCHANGED outcome
    /\ UNCHANGED << gt, harness, endpoint, videos, unit, semaphore, fin0, queue,
                    yielded, all_tutorials, timedOut, lateUnits, store, genCalls,
                    transcriptCalls, putCalls, synthCalls, idx, discoverCalls, apart,
                    log >>

\* search_youtube(search_query, API_KEY, max_results=25): the API's videos, [] on
\* HttpError; any other exception reaches the handler's "except Exception".
SearchApi ==
    /\ phase = "regular_search"
    /\ all_tutorials' = << >>
    /\ discoverCalls' = discoverCalls + 1
    /\ \/ /\ \E vs \in ScrapeResults : videos' = vs
          /\ idx' = 1
          /\ phase' = "sequential"
          /\ UNCHANGED outcome
       \/ /\ HandlerException
          /\ UNCHANGED << videos, idx >>
    /\ UNCHANGED << gt, harness, endpoint, unit, semaphore, fin0, queue, yielded,
                    timedOut, lateUnits, store, genCalls, transcriptCalls, putCalls,
                    synthCalls, response_text, report, regular, apart, log >>

\* One turn of "for video in videos:" of search_youtube_endpoint: get_object, on
\* NoSuchKey transcribe_youtube_video and put_object, then the append; any
\* exception is logged and the loop continues.
SeqProcessVideo ==
    /\ phase = "sequential"
    /\ idx <= Len(videos)
    /\ idx' = idx + 1
    /\ LET v == videos[idx] IN
       \/ /\ store[v] # NoSuchKey
          /\ all_tutorials' = Append(all_tutorials, Dict(idx, v, store[v]))
          /\ UNCHANGED << store, genCalls, transcriptCalls, putCalls >>
       \/ UNCHANGED << all_tutorials, store, genCalls, transcriptCalls, putCalls >>
       \/ /\ store[v] = NoSuchKey
          /\ transcriptCalls' = [transcriptCalls EXCEPT ![v] = @ + 1]
          /\ \/ UNCHANGED << all_tutorials, store, genCalls, putCalls >>
             \/ /\ genCalls' = [genCalls EXCEPT ![v] = @ + 1]
                /\ \/ UNCHANGED << all_tutorials, store, putCalls >>
                   \/ /\ putCalls' = [putCalls EXCEPT ![v] = @ + 1]
                      /\ \/ UNCHANGED << all_tutorials, store >>
                         \/ \E t \in {Tutorial(genCalls'[v]), NoTutorialGenerated} :
                               /\ store' = [store EXCEPT ![v] = t]
                               /\ all_tutorials' = Append(all_tutorials, Dict(idx, v, t))
    /\ UNCHANGED << gt, harness, endpoint, phase, videos, unit, semaphore, fin0, queue,
                    yielded, timedOut, lateUnits, synthCalls, response_text, report,
                    regular, outcome, discoverCalls, apart, log >>

\* "if all_tutorials:" of search_youtube_endpoint, to the return: the report is
\* the rewritten text followed by the Sources section, so it is never empty;
\* without tutorials, or without response text, the handler runs off its end.
SeqSynthesizeFrom(results) ==
    /\ phase = "sequential"
    /\ idx > Len(videos)
    /\ phase' = "responded"
    /\ IF all_tutorials = << >>
          THEN /\ outcome' = "None"
               /\ UNCHANGED << synthCalls, response_text, report >>
          ELSE /\ synthCalls' = synthCalls + 1
               /\ \E r \in results :
                     /\ response_text' = r
                     /\ CASE r.kind = "raise" ->
                               outcome' = "Internal server error" /\ UNCHANGED report
                          [] r.kind = "None" -> outcome' = "None" /\ UNCHANGED report
                          [] OTHER ->
                               /\ report' =
                                     LET built == BuildReport(r.text, all_tutorials)
                                     IN  [built EXCEPT
                                            !.section = SourcesSection(built.sources)]
                               /\ outcome' \in {"Report", "Failed to save report"}
    /\ UNCHANGED << gt, harness, endpoint, videos, unit, semaphore, fin0, queue,
                    yielded, all_tutorials, timedOut, lateUnits, store, genCalls,
                    transcriptCalls, putCalls, idx, regular, discoverCalls, apart,
                    log >>

SeqSynthesize == SeqSynthesizeFrom(SynthResults)

\* ------------------------------------------------------------ specification
NoRequest == [pc |-> "idle", vid |-> "a", tutorial |-> NoContent]

Init ==
    /\ endpoint \in {"deep_research", "search_youtube"}
    /\ phase = "scrape"
    /\ videos = << >>
    /\ unit = << >>
    /\ semaphore = max_concurrent
    /\ fin0 = {}
    /\ queue = << >>
    /\ yielded = {}
    /\ all_tutorials = << >>
    /\ timedOut = FALSE
    /\ lateUnits = {}
    /\ store \in [VideoIds -> {NoSuchKey, Tutorial(0)}]
    /\ genCalls = [v \in VideoIds |-> 0]
    /\ transcriptCalls = [v \in VideoIds |-> 0]
    /\ putCalls = [v \in VideoIds |-> 0]
    /\ synthCalls = 0
    /\ response_text = Unset
    /\ report = NoReport
    /\ idx = 0
    /\ regular = FALSE
    /\ outcome = "pending"
    /\ gt = NoRequest
    /\ gtRequests = 0
    /\ hQueued = 0
    /\ hInFlight = 0
    /\ discoverCalls = 0
    /\ log = << >>
    /\ ApartIdle

Next ==
    \/ Discover
    \/ CreateExecutor
    \/ \E i \in Units : Acquire(i) \/ Lookup(i) \/ Derive(i) \/ Put(i)
    \/ AsCompletedStart
    \/ Collect
    \/ ExitExecutor
    \/ Timeout
    \/ ShutdownWait
    \/ Synthesize
    \/ SaveReport
    \/ SearchApi
    \/ SeqProcessVideo
    \/ SeqSynthesize

Spec == Init /\ [][Next]_vars

\* ------------------------------------------------------- /generate_tutorial
\* generate_tutorial_endpoint from its get_object on notes/<video_id>: the stored
\* tutorial is returned, or on NoSuchKey the request goes on to derive one; any
\* other exception answers 500.
GtRequest(v) ==
    /\ gt.pc = "idle"
    /\ gtRequests < MaxTutorialRequests
    /\ gtRequests' = gtRequests + 1
    /\ \/ /\ store[v] # NoSuchKey
          /\ gt' = NoRequest
       \/ /\ store[v] = NoSuchKey
          /\ gt' = [pc |-> "miss", vid |-> v, tutorial |-> NoContent]
       \/ gt' = NoRequest
    /\ UNCHANGED << endpoint, phase, videos, unit, semaphore, fin0, queue, yielded,
                    all_tutorials, timedOut, lateUnits, store, genCalls,
                    transcriptCalls, putCalls, synthCalls, response_text, report, idx,
                    regular, outcome, hQueued, hInFlight, discoverCalls, apart, log >>

\* transcribe_youtube_video(video_id, video_url) in generate_tutorial_endpoint.
GtDerive ==
    /\ gt.pc = "miss"
    /\ transcriptCalls' = [transcriptCalls EXCEPT ![gt.vid] = @ + 1]
    /\ \/ /\ gt' = NoRequest                          \* get_transcript raises
          /\ UNCHANGED genCalls
       \/ /\ genCalls' = [genCalls EXCEPT ![gt.vid] = @ + 1]
          /\ \/ gt' = NoRequest                       \* generate_content or .text raises
             \/ \E t \in {Tutorial(genCalls'[gt.vid]), NoTutorialGenerated} :
                   gt' = [gt EXCEPT !.pc = "put", !.tutorial = t]
    /\ UNCHANGED << endpoint, phase, videos, unit, semaphore, fin0, queue, yielded,
                    all_tutorials, timedOut, lateUnits, store, putCalls, synthCalls,
                    response_text, report, idx, regular, outcome, harness,
                    discoverCalls, apart, log >>

\* put_object of the new tutorial in generate_tutorial_endpoint, then the return.
GtPut ==
    /\ gt.pc = "put"
    /\ putCalls' = [putCalls EXCEPT ![gt.vid] = @ + 1]
    /\ \/ store' = [store EXCEPT ![gt.vid] = gt.tutorial]
       \/ UNCHANGED store                             \* put_object raises
    /\ gt' = NoRequest
    /\ UNCHANGED << endpoint, phase, videos, unit, semaphore, fin0, queue, yielded,
                    all_tutorials, timedOut, lateUnits, genCalls, transcriptCalls,
                    synthCalls, response_text, report, idx, regular, outcome, harness,
                    discoverCalls, apart, log >>

\* Calls of process_video running in the executor's workers while
\* /generate_tutorial requests are served: the state after CreateExecutor, for
\* every list of videos and every content of the store.
InitCache ==
    /\ endpoint \in {"deep_research", "search_youtube"}
    /\ phase = "submitted"
    /\ videos \in UNION { [1 .. n -> VideoIds] : n \in 1 .. MaxCacheCalls }
    /\ unit = [i \in 1 .. Len(videos) |->
                  [pc |-> "queued", tutorial |-> NoContent, result |-> "pending"]]
    /\ semaphore = max_concurrent
    /\ fin0 = {}
    /\ queue = << >>
    /\ yielded = {}
    /\ all_tutorials = << >>
    /\ timedOut = FALSE
    /\ lateUnits = {}
    /\ store \in [VideoIds -> {NoSuchKey, Tutorial(0)}]
    /\ genCalls = [v \in VideoIds |-> 0]
    /\ transcriptCalls = [v \in VideoIds |-> 0]
    /\ putCalls = [v \in VideoIds |-> 0]
    /\ synthCalls = 0
    /\ response_text = Unset
    /\ report = NoReport
    /\ idx = 0
    /\ regular = FALSE
    /\ outcome = "pending"
    /\ gt = NoRequest
    /\ gtRequests = 0
    /\ hQueued = 0
    /\ hInFlight = 0
    /\ discoverCalls = 1
    /\ log = << >>
    /\ ApartIdle

NextCache ==
    \/ \E i \in Units : Acquire(i) \/ Lookup(i) \/ Derive(i) \/ Put(i)
    \/ \E v \in VideoIds : GtRequest(v)
    \/ GtDerive
    \/ GtPut

SpecCache == InitCache /\ [][NextCache]_vars

\* ------------------------------------------------------ the limiter's harness
\* process_with_semaphore for any number of submitted videos, process_video
\* taken as a whole: a unit is in flight from its acquire to its release.
HarnessAcquire ==
    /\ phase = "harness"
    /\ hQueued > 0
    /\ SemAcquire
    /\ hQueued' = hQueued - 1
    /\ hInFlight' = hInFlight + 1
    /\ UNCHANGED << endpoint, phase, videos, unit, fin0, queue, yielded, all_tutorials,
                    timedOut, lateUnits, store, genCalls, transcriptCalls, putCalls,
                    synthCalls, response_text, report, idx, regular, outcome, gt,
                    gtRequests, discoverCalls, apart, log >>

HarnessFinish ==
    /\ phase = "harness"
    /\ hInFlight > 0
    /\ SemRelease
    /\ hInFlight' = hInFlight - 1
    /\ UNCHANGED << endpoint, phase, videos, unit, fin0, queue, yielded, all_tutorials,
                    timedOut, lateUnits, store, genCalls, transcriptCalls, putCalls,
                    synthCalls, response_text, report, idx, regular, outcome, gt,
                    gtRequests, hQueued, discoverCalls, apart, log >>

InitSem ==
    /\ endpoint \in {"deep_research", "search_youtube"}
    /\ phase = "harness"
    /\ videos = << >>
    /\ unit = << >>
    /\ semaphore = max_concurrent
    /\ fin0 = {}
    /\ queue = << >>
    /\ yielded = {}
    /\ all_tutorials = << >>
    /\ timedOut = FALSE
    /\ lateUnits = {}
    /\ store = [v \in VideoIds |-> NoSuchKey]
    /\ genCalls = [v \in VideoIds |-> 0]
    /\ transcriptCalls = [v \in VideoIds |-> 0]
    /\ putCalls = [v \in VideoIds |-> 0]
    /\ synthCalls = 0
    /\ response_text = Unset
    /\ report = NoReport
    /\ idx = 0
    /\ regular = FALSE
    /\ outcome = "pending"
    /\ gt = NoRequest
    /\ gtRequests = 0
    /\ hQueued \in 1 .. MaxHarnessUnits
    /\ hInFlight = 0
    /\ discoverCalls = 0
    /\ log = << >>
    /\ ApartIdle

NextSem == HarnessAcquire \/ HarnessFinish

SpecSem == InitSem /\ [][NextSem]_vars

\* --------------------------------------------------- report building alone
\* Synthesis and report building for every list of tutorials the aggregation
\* can hand over (here each read from the store) and every synthesized text.
ReportSynthResults ==
    { [kind |-> k, text |-> << >>] : k \in {"raise", "None", "blank"} }
        \cup { [kind |-> "text", text |-> t] : t \in RawTexts }

SynthesizeReport == SynthesizeFrom(ReportSynthResults)

SeqSynthesizeReport == SeqSynthesizeFrom(ReportSynthResults)

SourceLists == UNION { [1 .. n -> VideoIds] : n \in 1 .. MaxSources }

InitReport ==
    /\ endpoint \in {"deep_research", "search_youtube"}
    /\ phase = "aggregated"
    /\ videos \in SourceLists
    /\ unit = << >>
    /\ semaphore = max_concurrent
    /\ fin0 = {}
    /\ queue = << >>
    /\ yielded = {}
    /\ all_tutorials = [k \in 1 .. Len(videos) |-> Dict(k, videos[k], Tutorial(0))]
    /\ timedOut = FALSE
    /\ lateUnits = {}
    /\ store = [v \in VideoIds |-> Tutorial(0)]
    /\ genCalls = [v \in VideoIds |-> 0]
    /\ transcriptCalls = [v \in VideoIds |-> 0]
    /\ putCalls = [v \in VideoIds |-> 0]
    /\ synthCalls = 0
    /\ response_text = Unset
    /\ report = NoReport
    /\ idx = 0
    /\ regular = FALSE
    /\ outcome = "pending"
    /\ gt = NoRequest
    /\ gtRequests = 0
    /\ hQueued = 0
    /\ hInFlight = 0
    /\ discoverCalls = 1
    /\ log = << >>
    /\ ApartIdle

NextReport ==
    \/ SynthesizeReport
    \/ SaveReport
    \/ SearchApi
    \/ SeqProcessVideo
    \/ SeqSynthesizeReport

SpecReport == InitReport /\ [][NextReport]_vars

\* --------------------------------------------------------- title extraction
\* No request is under way in the report pipeline.
PipelineIdle ==
    /\ videos = << >>
    /\ unit = << >>
    /\ semaphore = max_concurrent
    /\ fin0 = {}
    /\ queue = << >>
    /\ yielded = {}
    /\ all_tutorials = << >>
    /\ timedOut = FALSE
    /\ lateUnits = {}
    /\ store = [v \in VideoIds |-> NoSuchKey]
    /\ genCalls = [v \in VideoIds |-> 0]
    /\ transcriptCalls = [v \in VideoIds |-> 0]
    /\ putCalls = [v \in VideoIds |-> 0]
    /\ synthCalls = 0
    /\ response_text = Unset
    /\ report = NoReport
    /\ idx = 0
    /\ outcome = "pending"
    /\ gt = NoRequest
    /\ gtRequests = 0
    /\ hQueued = 0
    /\ hInFlight = 0
    /\ discoverCalls = 0
    /\ log = << >>

\* A line of markdown_content.split('\n'). kind "h1": it starts with '# ';
\* "h2": with '## '; "plain": with neither. len: the length of the line once the
\* marker is removed and the rest stripped (0: nothing but white space).
Line(kind, len) == [kind |-> kind, len |-> len]

Lines == { Line(k, n) : k \in {"h1", "h2", "plain"}, n \in {0, 1, TitleLimit + 1} }

\* response.text.strip() after rewriting, non-empty: its first and its last line
\* hold text.
Markdowns ==
    { m \in UNION { [1 .. n -> Lines] : n \in 1 .. MaxLines } :
        /\ ~(m[1].kind = "plain" /\ m[1].len = 0)
        /\ m[Len(m)].len > 0 }

Min(S) == CHOOSE m \in S : \A x \in S : m <= x

\* deep_research and fast_search_youtube: title = '' unless a line starts with
\* '# ', then that line without the marker, stripped.
TitleOfFirstH1(md) ==
    LET h1 == { k \in 1 .. Len(md) : md[k].kind = "h1" }
    IN  IF h1 = {} THEN Title("none", 0, 0)
                   ELSE Title("heading", Min(h1), md[Min(h1)].len)

\* The '## Sources' section search_youtube_endpoint appends before it takes the
\* title: a blank line, the heading and the numbered entries.
SourcesSectionLines == << Line("plain", 0), Line("h2", 7), Line("plain", 1) >>

\* search_youtube_endpoint's regular search: the first line starting with '# '
\* or '## ', else (or if that is empty) the first line cut to 100 characters,
\* else the default.
TitleOfRegularSearch(md) ==
    LET all == md \o SourcesSectionLines
        hs == { k \in 1 .. Len(all) : all[k].kind \in {"h1", "h2"} }
        found == IF hs = {} THEN Title("none", 0, 0)
                            ELSE Title("heading", Min(hs), all[Min(hs)].len)
        marker == IF all[1].kind = "h1" THEN 1 ELSE 2
        first_line == IF all[1].kind = "plain" THEN all[1].len
                      ELSE IF all[1].len = 0 THEN marker
                      ELSE marker + 1 + all[1].len
    IN  IF found.len > 0 THEN found
        ELSE IF first_line > 0
                THEN Title("first_line", 1,
                           IF first_line > TitleLimit THEN TitleLimit ELSE first_line)
                ELSE Title("default", 0, 17)

\* The title of the Report that /deep_research returns and that /search_youtube
\* saves with fast_search_youtube's report.
ExtractTitle ==
    /\ phase = "title"
    /\ ~regular
    /\ title = NoTitle
    /\ title' = TitleOfFirstH1(markdown_content)
    /\ UNCHANGED << gt, harness, endpoint, phase, videos, unit, semaphore, fin0, queue,
                    yielded, all_tutorials, timedOut, lateUnits, store, genCalls,
                    transcriptCalls, putCalls, synthCalls, response_text, report, idx,
                    regular, outcome, discoverCalls, api_keys, keyReq,
                    markdown_content, placeholder, sec_link, log, aside >>

\* The title /search_youtube saves with the report of its regular search.
ExtractTitleRegular ==
    /\ phase = "title"
    /\ regular
    /\ title = NoTitle
    /\ title' = TitleOfRegularSearch(markdown_content)
    /\ UNCHANGED << gt, harness, endpoint, phase, videos, unit, semaphore, fin0, queue,
                    yielded, all_tutorials, timedOut, lateUnits, store, genCalls,
                    transcriptCalls, putCalls, synthCalls, response_text, report, idx,
                    regular, outcome, discoverCalls, api_keys, keyReq,
                    markdown_content, placeholder, sec_link, log, aside >>

InitTitle ==
    /\ PipelineIdle
    /\ phase = "title"
    /\ endpoint \in {"deep_research", "search_youtube"}
    /\ regular \in (IF endpoint = "search_youtube" THEN BOOLEAN ELSE {FALSE})
    /\ api_keys = 0
    /\ keyReq = << >>
    /\ markdown_content \in Markdowns
    /\ title = NoTitle
    /\ placeholder = NoPlaceholder
    /\ sec_link = NoSecLink
    /\ AsideIdle

NextTitle == ExtractTitle \/ ExtractTitleRegular

SpecTitle == InitTitle /\ [][NextTitle]_vars

\* ------------------------------------------------------- replace_sec_links
\* int(match.group(1)): the digits matched by (\d+), read in base ten.
RECURSIVE int(_)
int(digits) ==
    IF digits = << >> THEN 0
    ELSE 10 * int(SubSeq(digits, 1, Len(digits) - 1)) + digits[Len(digits)]

\* A label that counts the hours in minutes.
\* An hour label whose minutes are not reduced by the hours.
display_time_total_minutes(seconds) ==
    IF seconds >= 3600
       THEN [units |-> << "hr", "m", "s" >>,
             values |-> << seconds \div 3600, seconds \div 60, seconds % 60 >>]
    ELSE IF seconds >= 60
       THEN [units |-> << "m", "s" >>, values |-> << seconds \div 60, seconds % 60 >>]
       ELSE [units |-> << "s" >>, values |-> << seconds >>]

display_time_in_minutes(seconds) ==
    IF seconds >= 60
       THEN [units |-> << "m", "s" >>, values |-> << seconds \div 60, seconds % 60 >>]
       ELSE [units |-> << "s" >>, values |-> << seconds >>]

\* display_time: f"{hours}hr{minutes}m{remaining_seconds}s",
\* f"{minutes}m{remaining_seconds}s" or f"{seconds}s", as the numbers and the unit
\* that follows each.
display_time(seconds) ==
    IF seconds >= 3600
       THEN [units |-> << "hr", "m", "s" >>,
             values |-> << seconds \div 3600, (seconds % 3600) \div 60, seconds % 60 >>]
    ELSE IF seconds >= 60
       THEN [units |-> << "m", "s" >>, values |-> << seconds \div 60, seconds % 60 >>]
       ELSE [units |-> << "s" >>, values |-> << seconds >>]

\* replace_sec_links(match) of generate_tutorial (generate_tldr has the same
\* function): '[<display_time>](https://youtu.be/<video_id>?t=<seconds>)'.
replace_sec_links ==
    /\ phase = "sec_links"
    /\ sec_link = NoSecLink
    /\ LET seconds == int(placeholder.digits)
       IN  sec_link' = [units |-> display_time(seconds).units,
                        values |-> display_time(seconds).values,
                        vid |-> placeholder.vid, t |-> seconds]
    /\ UNCHANGED << gt, harness, endpoint, phase, videos, unit, semaphore, fin0, queue,
                    yielded, all_tutorials, timedOut, lateUnits, store, genCalls,
                    transcriptCalls, putCalls, synthCalls, response_text, report, idx,
                    regular, outcome, discoverCalls, api_keys, keyReq,
                    markdown_content, title, placeholder, log, aside >>

\* Every placeholder the pattern \[sec:(\d+)\] matches, for every video id.
InitSecLinks ==
    /\ PipelineIdle
    /\ phase = "sec_links"
    /\ endpoint = "deep_research"
    /\ regular = FALSE
    /\ api_keys = 0
    /\ keyReq = << >>
    /\ markdown_content = << >>
    /\ title = NoTitle
    /\ placeholder \in
          { [vid |-> v, digits |-> d] :
              v \in VideoIds, d \in UNION { [1 .. n -> 0 .. 9] : n \in 1 .. MaxDigits } }
    /\ sec_link = NoSecLink
    /\ AsideIdle

NextSecLinks == replace_sec_links

SpecSecLinks == InitSecLinks /\ [][NextSecLinks]_vars

\* --------------------------------------------------------- /create_api_key
\* create_api_key up to "SELECT id FROM users": 401 without a valid bearer
\* token, 404 when the user is unknown, 500 on a database error.
KeyBegin(r) ==
    /\ phase = "api_customer"
    /\ keyReq[r].pc = "idle"
    /\ \/ \E st \in {401, 404, 500} :
             keyReq' = [keyReq EXCEPT ![r] = [pc |-> "done", status |-> st]]
       \/ keyReq' = [keyReq EXCEPT ![r].pc = "count"]
    /\ UNCHANGED << gt, harness, endpoint, phase, videos, unit, semaphore, fin0, queue,
                    yielded, all_tutorials, timedOut, lateUnits, store, genCalls,
                    transcriptCalls, putCalls, synthCalls, response_text, report, idx,
                    regular, outcome, discoverCalls, api_keys, markdown_content, title,
                    placeholder, sec_link, log, aside >>

\* "SELECT COUNT(*) FROM api_keys WHERE user_id = %s" on the request's own
\* connection: it counts the rows committed so far; 403 if there is one.
KeyCount(r) ==
    /\ phase = "api_customer"
    /\ keyReq[r].pc = "count"
    /\ \/ /\ api_keys > 0
          /\ keyReq' = [keyReq EXCEPT ![r] = [pc |-> "done", status |-> 403]]
       \/ /\ api_keys = 0
          /\ keyReq' = [keyReq EXCEPT ![r].pc = "insert"]
       \/ keyReq' = [keyReq EXCEPT ![r] = [pc |-> "done", status |-> 500]]
    /\ UNCHANGED << gt, harness, endpoint, phase, videos, unit, semaphore, fin0, queue,
                    yielded, all_tutorials, timedOut, lateUnits, store, genCalls,
                    transcriptCalls, putCalls, synthCalls, response_text, report, idx,
                    regular, outcome, discoverCalls, api_keys, markdown_content, title,
                    placeholder, sec_link, log, aside >>

\* "INSERT INTO api_keys ..." and conn.commit(): 201 with the new key, or an
\* exception, the rollback and 500.
KeyInsert(r) ==
    /\ phase = "api_customer"
    /\ keyReq[r].pc = "insert"
    /\ \/ /\ api_keys' = api_keys + 1
          /\ keyReq' = [keyReq EXCEPT ![r] = [pc |-> "done", status |-> 201]]
       \/ /\ keyReq' = [keyReq EXCEPT ![r] = [pc |-> "done", status |-> 500]]
          /\ UNCHANGED api_keys
    /\ UNCHANGED << gt, harness, endpoint, phase, videos, unit, semaphore, fin0, queue,
                    yielded, all_tutorials, timedOut, lateUnits, store, genCalls,
                    transcriptCalls, putCalls, synthCalls, response_text, report, idx,
                    regular, outcome, discoverCalls, markdown_content, title,
                    placeholder, sec_link, log, aside >>

\* One user without a key and the requests the user is going to make.
InitKeys ==
    /\ PipelineIdle
    /\ phase = "api_customer"
    /\ endpoint = "create_api_key"
    /\ regular = FALSE
    /\ api_keys = 0
    /\ keyReq = [r \in 1 .. MaxKeyRequests |-> [pc |-> "idle", status |-> 0]]
    /\ markdown_content = << >>
    /\ title = NoTitle
    /\ placeholder = NoPlaceholder
    /\ sec_link = NoSecLink
    /\ AsideIdle

NextKeys == \E r \in DOMAIN keyReq : KeyBegin(r) \/ KeyCount(r) \/ KeyInsert(r)

SpecKeys == InitKeys /\ [][NextKeys]_vars

\* ---------------------------------------------------- scrape_youtube_links
\* One pass of "for attempt in range(max_retries)": the driver is set up, the
\* page is loaded and n of its first PageLimit elements are appended to results
\* (results is created once, before the loop); raises says whether an exception
\* leaves the try body or its finally block (the driver, the page load, the
\* wait, or shutil.rmtree after the elements were read). The except clause
\* returns [] on the last attempt and otherwise goes on to the next one;
\* without an exception the loop is left by break as soon as results is not
\* empty.
ScrapeAttempt ==
    /\ phase = "scrape"
    /\ scrape.pc = "loop"
    /\ scrape.attempt < scrape.max_retries
    /\ \E n \in 0 .. PageLimit, raises \in BOOLEAN :
          LET results == scrape.results + n
              last == scrape.attempt = scrape.max_retries - 1
          IN  scrape' =
                 IF raises
                    THEN IF last
                            THEN [scrape EXCEPT !.attempt = @ + 1, !.results = results,
                                                !.pc = "returned", !.returned = 0,
                                                !.failed = TRUE]
                            ELSE [scrape EXCEPT !.attempt = @ + 1, !.results = results]
                    ELSE IF results > 0
                            THEN [scrape EXCEPT !.attempt = @ + 1, !.results = results,
                                                !.pc = "returned", !.returned = results]
                            ELSE [scrape EXCEPT !.attempt = @ + 1]
    /\ UNCHANGED << endpoint, phase, reports, functions, crediting, webhooks >>

\* The loop ran out of attempts: "return results, end_time - start_time".
ScrapeLoopEnd ==
    /\ phase = "scrape"
    /\ scrape.pc = "loop"
    /\ scrape.attempt >= scrape.max_retries
    /\ scrape' = [scrape EXCEPT !.pc = "returned", !.returned = scrape.results]
    /\ UNCHANGED << endpoint, phase, reports, functions, crediting, webhooks >>

InitScrape ==
    /\ PipelineIdle
    /\ phase = "scrape"
    /\ endpoint = "deep_research"
    /\ regular = FALSE
    /\ api_keys = 0
    /\ keyReq = << >>
    /\ markdown_content = << >>
    /\ title = NoTitle
    /\ placeholder = NoPlaceholder
    /\ sec_link = NoSecLink
    /\ scrape \in { [NoScrape EXCEPT !.max_retries = m, !.pc = "loop"] :
                      m \in 0 .. MaxRetries }
    /\ CreditingIdle
    /\ WebhooksIdle

NextScrape == ScrapeAttempt \/ ScrapeLoopEnd

SpecScrape == InitScrape /\ [][NextScrape]_vars

\* ------------------------------------------------- /deep_research credits
\* The request up to its credit check: 401 without a valid key; otherwise
\* SELECT SUM(credits_used) of the month, and 403 when that usage plus the
\* credits of this call is above the limit. The request holds no lock on the
\* rows it read.
DrCheck(r) ==
    /\ phase = "credits"
    /\ drReq[r].pc = "idle"
    /\ \/ drReq' = [drReq EXCEPT ![r].pc = "done", ![r].status = 401]
       \/ LET current_usage == api_calls
          IN  drReq' =
                 IF current_usage + credits_for_this_call > credit_limit
                    THEN [drReq EXCEPT ![r].pc = "done", ![r].status = 403,
                                       ![r].current_usage = current_usage]
                    ELSE [drReq EXCEPT ![r].pc = "pipeline",
                                       ![r].current_usage = current_usage]
    /\ UNCHANGED << endpoint, phase, reports, functions, scrape, api_calls,
                    credit_limit, webhooks >>

\* The rest of the request, after discovery, aggregation and synthesis: a
\* Report is returned with 200 and the call is inserted with credits_used =
\* 100, unless the insert fails, which is only logged; every other end is a
\* 400 or a 500, inserted with credits_used = 0 or not at all.
DrRespond(r) ==
    /\ phase = "credits"
    /\ drReq[r].pc = "pipeline"
    /\ \/ /\ drReq' = [drReq EXCEPT ![r].pc = "done", ![r].status = 200,
                                     ![r].credits_used = credits_for_this_call]
          /\ api_calls' = api_calls + credits_for_this_call
       \/ /\ \E st \in {200, 400, 500} :
                drReq' = [drReq EXCEPT ![r].pc = "done", ![r].status = st]
          /\ UNCHANGED api_calls
    /\ UNCHANGED << endpoint, phase, reports, functions, scrape, credit_limit,
                    webhooks >>

\* A key of any plan with any usage the limit allows, and requests not yet begun.
InitCredits ==
    /\ PipelineIdle
    /\ phase = "credits"
    /\ endpoint = "deep_research"
    /\ regular = FALSE
    /\ api_keys = 0
    /\ keyReq = << >>
    /\ markdown_content = << >>
    /\ title = NoTitle
    /\ placeholder = NoPlaceholder
    /\ sec_link = NoSecLink
    /\ scrape = NoScrape
    /\ credit_limit \in CreditLimits
    /\ api_calls \in { u \in 0 .. credit_limit : u % credits_for_this_call = 0 }
    /\ drReq = [r \in 1 .. MaxResearchRequests |->
                  [pc |-> "idle", current_usage |-> 0, status |-> 0, credits_used |-> 0]]
    /\ WebhooksIdle

NextCredits == \E r \in DOMAIN drReq : DrCheck(r) \/ DrRespond(r)

SpecCredits == InitCredits /\ [][NextCredits]_vars

\* ---------------------------------------------------------- stripe_webhook
\* The event types stripe_webhook has a branch for.
HandledTypes ==
    {"customer.subscription.created", "invoice.paid", "customer.subscription.updated",
     "invoice.payment_failed", "customer.subscription.deleted"}

\* The events received: of a handled type or of another one; only
\* customer.subscription.updated reads cancel_at_period_end and the
\* customer's cancelled subscription.
Events ==
    { Event(t, "unset", FALSE) :
        t \in (HandledTypes \ {"customer.subscription.updated"}) \cup {"other"} }
      \cup { Event("customer.subscription.updated", c, r) :
                c \in {"True", "False", "unset"}, r \in BOOLEAN }

\* The branches that call the Stripe API before they touch the database.
CallsStripe(e) == e.type \in {"customer.subscription.created", "invoice.paid"}

\* Every event marked 'success', whatever its type.
BranchMarksSuccessAlways(e) == TRUE

\* The branches that end with UPDATE webhook_logs SET processing_status =
\* 'success': all but customer.subscription.updated when it renews nothing
\* (cancel_at_period_end False and rowcount = 0, or neither True nor False).
BranchMarksSuccess(e) ==
    \/ e.type \in HandledTypes \ {"customer.subscription.updated"}
    \/ /\ e.type = "customer.subscription.updated"
       /\ \/ e.cancel_at_period_end = "True"
          \/ e.cancel_at_period_end = "False" /\ e.renews

\* stripe.Webhook.construct_event and the INSERT of the webhook_logs row: a
\* verified event gets a row with no processing_status; a failed
\* verification gets a row with status 'error' and the answer 400; an INSERT
\* that raises leaves no row and the request ends with 500.
WebhookVerify ==
    /\ phase = "webhook"
    /\ wpc = "received"
    /\ \/ /\ processing_status' = "unset"
          /\ wpc' = "loop"
          /\ UNCHANGED << response_status, conn_aborted >>
       \/ /\ processing_status' = "error"
          /\ wpc' = "rejected"
          /\ response_status' = 400
          /\ UNCHANGED conn_aborted
       \/ /\ wpc' = "raised"
          /\ response_status' = 500
          /\ conn_aborted' = TRUE
          /\ UNCHANGED processing_status
    /\ UNCHANGED << endpoint, phase, reports, functions, scrape, crediting, event,
                    retry_count, attempts >>

\* One pass of "while retry_count < max_retries": the branch of the event's
\* type. It raises when its Stripe call fails, or when a statement or the
\* commit fails, which leaves the connection of the request (the same one
\* for every get_db_connection() of the request) in a failed transaction, in
\* which every later statement fails too. A branch that completes has
\* committed its updates, and "break" leads to the 200.
WebhookAttempt ==
    /\ phase = "webhook"
    /\ wpc = "loop"
    /\ retry_count < max_retries
    /\ attempts' = attempts + 1
    /\ \/ /\ event.type \in HandledTypes => ~conn_aborted
          /\ processing_status' =
                IF BranchMarksSuccess(event) THEN "success" ELSE processing_status
          /\ response_status' = 200
          /\ wpc' = "returned"
          /\ UNCHANGED conn_aborted
       \/ /\ CallsStripe(event)
          /\ wpc' = "except"
          /\ UNCHANGED << processing_status, response_status, conn_aborted >>
       \/ /\ event.type \in HandledTypes
          /\ conn_aborted' = TRUE
          /\ wpc' = "except"
          /\ UNCHANGED << processing_status, response_status >>
    /\ UNCHANGED << endpoint, phase, reports, functions, scrape, crediting, event,
                    retry_count >>

\* "except Exception": retry_count += 1, then the update of the row to 'error'
\* (on the last attempt) or 'retrying', whose own failure is only logged,
\* then the 500 on the last attempt or the sleep before the next pass.
WebhookExcept ==
    /\ phase = "webhook"
    /\ wpc = "except"
    /\ retry_count' = retry_count + 1
    /\ \/ /\ ~conn_aborted
          /\ processing_status' =
                IF retry_count' = max_retries THEN "error" ELSE "retrying"
          /\ UNCHANGED conn_aborted
       \/ /\ conn_aborted' = TRUE
          /\ UNCHANGED processing_status
    /\ IF retry_count' = max_retries
          THEN response_status' = 500 /\ wpc' = "returned"
          ELSE wpc' = "loop" /\ UNCHANGED response_status
    /\ UNCHANGED << endpoint, phase, reports, functions, scrape, crediting, event,
                    attempts >>

InitWebhook ==
    /\ PipelineIdle
    /\ phase = "webhook"
    /\ endpoint = "stripe_webhook"
    /\ regular = FALSE
    /\ api_keys = 0
    /\ keyReq = << >>
    /\ markdown_content = << >>
    /\ title = NoTitle
    /\ placeholder = NoPlaceholder
    /\ sec_link = NoSecLink
    /\ scrape = NoScrape
    /\ CreditingIdle
    /\ event \in Events
    /\ wpc = "received"
    /\ retry_count = 0
    /\ attempts = 0
    /\ conn_aborted = FALSE
    /\ processing_status = "no row"
    /\ response_status = 0

NextWebhook == WebhookVerify \/ WebhookAttempt \/ WebhookExcept

SpecWebhook == InitWebhook /\ [][NextWebhook]_vars

\* =================================================================== claims
\* The request was answered without /search_youtube's regular search.
FirstPass == ~regular

Responded == phase = "responded"

\* C1: when the 90-second deadline expires with units still pending, the units
\* collected before it are kept and the pipeline goes on to synthesize a
\* report from them: the expiry alone does not fail the request.
C1_DeadlineKeepsCompleted ==
    (Responded /\ timedOut /\ lateUnits # {} /\ all_tutorials # << >>)
        => (synthCalls > 0 /\ outcome # "Internal server error")

\* C2: when discovery returns the empty list the request ends in the clean
\* 'no report' failure, not in an internal error, and neither the report
\* synthesis nor any tutorial generation is invoked.
C2_EmptyDiscoveryNoReport ==
    (Responded /\ FirstPass /\ videos = << >>)
        => /\ outcome = "Failed to generate report"
           /\ synthCalls = 0
           /\ \A v \in VideoIds : genCalls[v] = 0

\* The process_video calls in flight: past the semaphore and not yet returned.
InFlightCount == hInFlight + Cardinality({ i \in Units : InFlight(i) })

\* C3: at most 25 process_video calls are in flight at any time, however many
\* videos were submitted.
C3_InFlightAtMost25 == InFlightCount <= max_concurrent

\* C3 witness: 25 calls in flight while a further submitted unit waits.
C3_Witness == hInFlight = max_concurrent /\ hQueued > 0

\* The aggregation has ended without a timeout: every future was yielded.
AllCollected == phase = "collecting" /\ yielded = Units

Succeeded == { i \in Units : unit[i].result = "dict" }
Failed == { i \in Units : unit[i].result = "None" }

\* C4 (as amended): with N videos of which M fail and none times out,
\* all_tutorials has exactly N-M entries, one for each unit that succeeded; no
\* per-video failure reaches the handler; and with N-M >= 1 a Report is
\* returned whenever the synthesis call returns non-blank text (and, on
\* /search_youtube, the report is saved).
C4_PartialFailure ==
    /\ AllCollected =>
          /\ Len(all_tutorials) = Len(videos) - Cardinality(Failed)
          /\ \A i \in Succeeded :
                \E k \in 1 .. Len(all_tutorials) :
                    all_tutorials[k] = Dict(i, videos[i], unit[i].tutorial)
    /\ (Responded /\ FirstPass /\ outcome = "Internal server error")
          => (timedOut \/ videos = << >> \/ response_text.kind = "raise")
    /\ (Responded /\ FirstPass /\ ~timedOut /\ all_tutorials # << >>
            /\ response_text.kind = "text")
          => (outcome = "Report" /\ report.made)

\* C4 witness: an aggregation that ended with a failed unit and a kept result.
C4_Witness == AllCollected /\ Failed # {} /\ all_tutorials # << >>

\* C4 as stated: with N-M >= 1 and no timeout a Report is always produced.
C4_ReportWheneverOneSucceeds ==
    (Responded /\ FirstPass /\ ~timedOut /\ all_tutorials # << >>)
        => outcome = "Report"

\* C5 as stated: the TextGenerator derives the tutorial of a video id at most
\* once, whatever requests reference the id.
C5_AtMostOneDerivation == \A v \in VideoIds : genCalls[v] <= 1

\* A call for video id v that found no entry at its lookup and has yet to derive.
MissedCaller(v) ==
    \/ \E i \in Units : unit[i].pc = "miss" /\ videos[i] = v
    \/ gt.pc = "miss" /\ gt.vid = v

\* C5 (as amended): a tutorial is derived only by a call whose lookup found no
\* entry for the id, once per such call; a call that looks the id up while the
\* store holds an entry derives nothing. Calls that overlap, or that follow a
\* failed derivation, may each derive it.
C5_DerivationOnlyAfterMiss ==
    [][ /\ \A v \in VideoIds :
              genCalls'[v] # genCalls[v]
                  => (genCalls'[v] = genCalls[v] + 1 /\ MissedCaller(v))
        /\ \A i \in Units :
              (unit[i].pc = "running" /\ store[videos[i]] # NoSuchKey)
                  => unit'[i].pc # "miss"
        /\ (gt.pc = "idle" /\ gt'.pc = "miss") => store[gt'.vid] = NoSuchKey
      ]_vars

\* C5 witness: one video id derived twice, by two calls that both missed.
C5_Witness == \E v \in VideoIds : genCalls[v] = 2

\* C6: when the store holds a tutorial for the id, process_video returns the
\* stored content without a transcript call, a TextGenerator call or a store
\* write (a failing read returns None, with no call either), so calls that
\* find the id stored add no TextGenerator call.
C6_HitIsPure ==
    [][ \A i \in Units :
           (Aggregating /\ unit[i].pc = "running" /\ store[videos[i]] # NoSuchKey
                /\ unit'[i] # unit[i])
              => /\ unit'[i].pc = "done"
                 /\ unit'[i].result = "dict" => unit'[i].tutorial = store[videos[i]]
                 /\ store' = store
                 /\ genCalls' = genCalls
                 /\ transcriptCalls' = transcriptCalls
                 /\ putCalls' = putCalls
      ]_vars

\* C6 witness: two calls for one id have returned the same stored tutorial,
\* the first having derived it, with one TextGenerator call in total.
C6_Witness ==
    \E i, j \in Units :
        /\ i # j /\ videos[i] = videos[j]
        /\ unit[i].result = "dict" /\ unit[j].result = "dict"
        /\ unit[i].tutorial = Tutorial(1) /\ unit[j].tutorial = Tutorial(1)
        /\ genCalls[videos[i]] = 1 /\ putCalls[videos[i]] = 1

\* C7: once synthesis was attempted the request ends with the full Report or
\* with the explicit 'Failed to generate report' response; in particular the
\* latter when the synthesis call returned no usable text.
C7_ReportOrFailure ==
    (Responded /\ FirstPass /\ synthCalls > 0 /\ response_text.kind # "raise")
        => /\ outcome \in {"Report", "Failed to generate report"}
           /\ response_text.kind \in {"None", "blank"}
                 => outcome = "Failed to generate report"

\* C8: when videos were discovered and every unit failed, the synthesis call
\* is not made and the caller receives an explicit failure response, on
\* /deep_research and on /search_youtube.
C8_AllFailedExplicitFailure ==
    (Responded /\ FirstPass /\ ~timedOut /\ videos # << >> /\ all_tutorials = << >>)
        => (synthCalls = 0 /\ outcome = "Failed to generate report")

\* The links of the returned content that carry a citation number.
Citations(r) == { k \in 1 .. Len(r.content) : r.content[k].num # 0 }

\* C9: in every returned Report the source ids and the source numbers
\* 1..len(sources) correspond one to one, and a citation '(k) label' on a link
\* to video v has k equal to the number of the sources entry for v.
C9_SourceBijection ==
    outcome = "Report" =>
        /\ \A i, j \in 1 .. Len(report.sources) :
              report.sources[i].vid = report.sources[j].vid => i = j
        /\ \A c \in Citations(report) :
              \A i \in 1 .. Len(report.sources) :
                 report.sources[i].vid = report.content[c].vid
                     => report.sources[i].number = report.content[c].num

C11_SourcesFollowAggregation ==
    outcome = "Report" =>
        /\ Len(report.sources) = Len(all_tutorials)
        /\ \A i \in 1 .. Len(all_tutorials) :
              report.sources[i] = [number |-> i, title |-> all_tutorials[i].video,
                                   vid |-> all_tutorials[i].vid]

\* C11 witness: a Report from two tutorials of one video id, listed as sources 1 and 2.
C11_Witness ==
    /\ outcome = "Report"
    /\ Len(all_tutorials) = 2
    /\ all_tutorials[1].vid = all_tutorials[2].vid
    /\ report.sources[2].number = 2

\* C12: once the deadline has expired, control leaves the aggregation phase
\* without waiting for a unit that had not finished by then: leaving is possible
\* whatever the units still running do.
C12_NoWaitAfterDeadline == phase = "shutdown" => ENABLED ShutdownWait

\* C13: a request whose aggregation kept at least one tutorial makes exactly
\* one source discovery and exactly one report-synthesis call, on every path
\* of /deep_research and /search_youtube.
C13_OneDiscoveryOneSynthesis ==
    (Responded /\ ~timedOut /\ (all_tutorials # << >> \/ synthCalls > 0))
        => (discoverCalls = 1 /\ synthCalls = 1)

\* C14 as stated: once the store holds a tutorial for a video id, no later
\* operation overwrites or changes that entry.
C14_StoredEntryNeverChanges ==
    [][ \A v \in VideoIds : store[v] # NoSuchKey => store'[v] = store[v] ]_vars

\* A call for video id v that derived tutorial t after a miss and is about to
\* write it under notes/<v>.
PutCaller(v, t) ==
    \/ \E i \in Units : unit[i].pc = "put" /\ videos[i] = v /\ unit[i].tutorial = t
    \/ gt.pc = "put" /\ gt.vid = v /\ gt.tutorial = t

\* C14 (as amended): the entry of a video id is written only by a call for
\* that id whose own lookup found no entry, with the tutorial that call derived;
\* a call whose lookup finds the entry goes on to no write. Calls that missed
\* together may each write, the later write replacing the earlier entry.
C14_WriteOnlyAfterOwnMiss ==
    [][ /\ \A v \in VideoIds : store'[v] # store[v] => PutCaller(v, store'[v])
        /\ \A i \in Units :
              (unit[i].pc # "put" /\ unit'[i].pc = "put") => unit[i].pc = "miss"
        /\ \A i \in Units :
              (unit[i].pc # "miss" /\ unit'[i].pc = "miss")
                  => (unit[i].pc = "running" /\ store[videos[i]] = NoSuchKey)
        /\ (gt.pc # "put" /\ gt'.pc = "put") => gt.pc = "miss"
        /\ (gt.pc # "miss" /\ gt'.pc = "miss")
              => (gt.pc = "idle" /\ store[gt'.vid] = NoSuchKey)
      ]_vars

\* C14 witness: the store holds a tutorial for an id while a call that missed
\* earlier is about to write another one under it.
C14_Witness ==
    \E v \in VideoIds :
        /\ store[v] # NoSuchKey
        /\ \E t \in {Tutorial(1), Tutorial(2), NoTutorialGenerated} :
              t # store[v] /\ PutCaller(v, t)

\* C15: the Report title is the text of the first '# ' or '## ' heading line of
\* the synthesized markdown; without such a line it is the first non-empty line
\* cut to 100 characters; so no returned or saved Report has an empty title.
C15_TitleRule ==
    title # NoTitle =>
        LET md == markdown_content
            hs == { k \in 1 .. Len(md) : md[k].kind \in {"h1", "h2"} }
            text == { k \in 1 .. Len(md) : md[k].len > 0 }
        IN  /\ hs # {} => (title.src = "heading" /\ title.line = Min(hs))
            /\ hs = {} => (title.src = "first_line" /\ title.line = Min(text)
                              /\ title.len <= TitleLimit)
            /\ title.len > 0

\* C16 as stated: the content of every returned Report ends with a
\* '## Sources' section that lists every source once, in number order, as a
\* link with the source's title and url.
C16_ContentEndsWithSources ==
    outcome = "Report" => report.section = SourcesSectionOfUrls(report.sources)

\* C16 (as amended): the content /search_youtube returns is the rewritten
\* markdown followed by a '## Sources' section listing every source once, in
\* number order, each as a link with its title to the note page of its video
\* id; the content /deep_research returns has no such section.
C16_SourcesSectionPerEndpoint ==
    outcome = "Report" =>
        IF endpoint = "deep_research"
           THEN report.section = << >>
           ELSE /\ Len(report.section) = Len(report.sources)
                /\ \A k \in 1 .. Len(report.sources) :
                      /\ report.section[k].number = k
                      /\ report.section[k].title = report.sources[k].title
                      /\ report.section[k].target
                            = [site |-> "base_url", vid |-> report.sources[k].vid]

\* C16 witness: /search_youtube has returned a Report listing two sources.
C16_Witness ==
    /\ outcome = "Report"
    /\ endpoint = "search_youtube"
    /\ Len(report.section) = 2
    /\ report.section[2].number = 2

\* C17: [sec:N] becomes a link labelled 'Ns' if N < 60, '<N div 60>m<N mod 60>s'
\* if 60 <= N < 3600 and '<N div 3600>hr<(N mod 3600) div 60>m<N mod 60>s'
\* otherwise (45 -> 45s, 125 -> 2m5s, 3725 -> 1hr2m5s), whose target carries the
\* offset N and the video id.
C17_TimeLabel ==
    sec_link # NoSecLink =>
        LET N == int(placeholder.digits)
            label == [units |-> sec_link.units, values |-> sec_link.values]
        IN  /\ N < 60 => label = [units |-> << "s" >>, values |-> << N >>]
            /\ (60 <= N /\ N < 3600)
                  => label = [units |-> << "m", "s" >>,
                              values |-> << N \div 60, N % 60 >>]
            /\ N >= 3600
                  => label = [units |-> << "hr", "m", "s" >>,
                              values |-> << N \div 3600, (N % 3600) \div 60, N % 60 >>]
            /\ N = 45 => label.values = << 45 >>
            /\ N = 125 => label.values = << 2, 5 >>
            /\ N = 3725 => label.values = << 1, 2, 5 >>
            /\ sec_link.t = N
            /\ sec_link.vid = placeholder.vid

\* C17 witness: [sec:3725] has become the link labelled 1hr2m5s.
C17_Witness ==
    /\ placeholder.digits = << 3, 7, 2, 5 >>
    /\ sec_link.units = << "hr", "m", "s" >>
    /\ sec_link.values = << 1, 2, 5 >>
    /\ sec_link.t = 3725

\* C18: whatever the order and interleaving of one user's /create_api_key
\* requests, the user never has more than one API key stored.
C18_AtMostOneKey == api_keys <= 1

\* C19: when the store has no entry and the transcript cannot be fetched,
\* process_video makes no TextGenerator call and no store write, the store is
\* left as it was, and the video gets no entry in all_tutorials.
C19_TranscriptFailureLeavesNoTrace ==
    [][ /\ \A i \in Units :
              (unit[i].pc = "miss" /\ unit'[i].pc = "done"
                   /\ genCalls'[videos[i]] = genCalls[videos[i]])
                 => /\ unit'[i].result = "None"
                    /\ transcriptCalls'[videos[i]] = transcriptCalls[videos[i]] + 1
                    /\ genCalls' = genCalls
                    /\ putCalls' = putCalls
                    /\ store' = store
        /\ \A k \in 1 .. Len(all_tutorials') :
              phase' = "collecting" => unit'[all_tutorials'[k].video].result = "dict"
      ]_vars

\* C19 witness: a unit whose transcript fetch failed was collected: one
\* transcript call, no generator call, no write, nothing stored, no entry kept.
C19_Witness ==
    \E i \in Units :
        /\ phase = "collecting" /\ i \in yielded
        /\ unit[i].result = "None"
        /\ transcriptCalls[videos[i]] = 1
        /\ genCalls[videos[i]] = 0 /\ putCalls[videos[i]] = 0
        /\ store[videos[i]] = NoSuchKey
        /\ \A k \in 1 .. Len(all_tutorials) : all_tutorials[k].video # i

\* C20: when the generator produces no content for a video the video is
\* dropped and nothing is stored for its id: every entry stored under
\* notes/<id> and every tutorial handed to synthesis is generated content.
C20_OnlyGeneratedContent ==
    /\ \A v \in VideoIds : store[v] = NoSuchKey \/ store[v].kind = "tutorial"
    /\ \A k \in 1 .. Len(all_tutorials) : all_tutorials[k].content.kind = "tutorial"

\* Where x stands in a sequence that holds it once.
Pos(seq, x) == CHOOSE k \in 1 .. Len(seq) : seq[k] = x

\* The units whose dict the collecting loop has appended so far.
Appended == { all_tutorials[k].video : k \in 1 .. Len(all_tutorials) }

\* Where the tutorial of unit i stands in all_tutorials.
PosTutorial(i) == CHOOSE k \in 1 .. Len(all_tutorials) : all_tutorials[k].video = i

\* C21 as stated: whenever a completed before b and both succeeded, a stands
\* before b in all_tutorials.
C21_CompletionOrder ==
    phase = "collecting" =>
        \A a, b \in Appended :
            Pos(log, a) < Pos(log, b) => PosTutorial(a) < PosTutorial(b)

\* C21 amended: a unit that completed after as_completed began stands in
\* all_tutorials behind every successful unit that completed before it; units
\* that had completed before as_completed began come first, in any order.
C21_CompletionOrderOnceCollecting ==
    phase = "collecting" =>
        \A a, b \in Appended :
            (Pos(log, a) < Pos(log, b) /\ Pos(log, 0) < Pos(log, b))
                => PosTutorial(a) < PosTutorial(b)

\* Two successful units completed after as_completed began and are appended.
C21_Witness ==
    /\ phase = "collecting"
    /\ \E a, b \in Appended :
          /\ Pos(log, 0) < Pos(log, a)
          /\ Pos(log, a) < Pos(log, b)
          /\ PosTutorial(a) < PosTutorial(b)

C23_OnlyLabelsChange ==
    report.made =>
        /\ Len(report.content) = Len(response_text.text)
        /\ \A k \in 1 .. Len(report.content) :
              LET raw == response_text.text[k]
                  new == report.content[k]
              IN  /\ new = [raw EXCEPT !.num = new.num]
                  /\ new.num # 0 =>
                        /\ raw.shape = "ts"
                        /\ \E i \in 1 .. Len(report.sources) :
                              report.sources[i].vid = raw.vid

C25_AcquireNeverWaits ==
    (hQueued > 0 /\ hQueued + hInFlight <= PageLimit) => ENABLED HarnessAcquire

\* 24 units are inside process_video and the 25th is about to acquire.
C25_Witness ==
    /\ hQueued = 1
    /\ hInFlight = PageLimit - 1
    /\ ENABLED HarnessAcquire

\* C26: the permits held are always exactly as many as the units inside
\* process_video, between 0 and 25, and all 25 are free once every unit has
\* finished, whether it returned a tutorial or None.
C26_PermitsHeldAreInFlight ==
    /\ max_concurrent - semaphore = InFlightCount
    /\ semaphore \in 0 .. max_concurrent
    /\ (Units # {} /\ \A i \in Units : Done(i)) => semaphore = max_concurrent

\* Every unit has finished, one with a tutorial and one without, and all
\* permits are free.
C26_Witness ==
    /\ AllCollected
    /\ Succeeded # {}
    /\ Failed # {}
    /\ semaphore = max_concurrent

\* The number a label shows before unit u, 0 when the label has no such part.
Part(label, u) ==
    IF \E k \in 1 .. Len(label.units) : label.units[k] = u
       THEN label.values[CHOOSE k \in 1 .. Len(label.units) : label.units[k] = u]
       ELSE 0

\* C27: the label made for offset N decodes back to N: with H, M, S the numbers
\* it shows before hr, m and s (0 for a part it lacks), H*3600 + M*60 + S = N,
\* S < 60, and M < 60 whenever the label has an hour part.
C27_LabelDecodes ==
    sec_link # NoSecLink =>
        LET N == int(placeholder.digits)
            H == Part(sec_link, "hr")
            M == Part(sec_link, "m")
            S == Part(sec_link, "s")
        IN  /\ H * 3600 + M * 60 + S = N
            /\ S < 60
            /\ (\E k \in 1 .. Len(sec_link.units) : sec_link.units[k] = "hr") => M < 60

\* [sec:7259] has become the link labelled 2hr0m59s.
C27_Witness ==
    /\ placeholder.digits = << 7, 2, 5, 9 >>
    /\ Part(sec_link, "hr") = 2
    /\ Part(sec_link, "m") = 0
    /\ Part(sec_link, "s") = 59

\* C28: whatever the interleaving of /deep_research requests on one key, the
\* credits recorded for the month never exceed the key's credit limit; a
\* request whose usage plus 100 would exceed it gets 403 before the pipeline
\* runs; credits are recorded only for requests answered with 200.
C28_CreditsWithinLimit ==
    /\ api_calls <= credit_limit
    /\ \A r \in DOMAIN drReq :
          /\ drReq[r].status = 403
                => /\ drReq[r].current_usage + credits_for_this_call > credit_limit
                   /\ drReq[r].credits_used = 0
          /\ drReq[r].pc = "pipeline"
                => drReq[r].current_usage + credits_for_this_call <= credit_limit
          /\ drReq[r].credits_used # 0 => drReq[r].status = 200

\* The signature of the event was verified and its webhook_logs row inserted.
Verified == wpc \in {"loop", "except", "returned"}

\* C29 as stated: a verified event answered with 200 has its row in status
\* 'success', and the row of a verified event is in status 'error' only when
\* the answer is 500.
C29_Returned200MeansSuccess ==
    Verified =>
        /\ response_status = 200 => processing_status = "success"
        /\ processing_status = "error" => response_status = 500

\* C29 amended: a verified event answered with 200 has its row in status
\* 'success' exactly when its type is one of the five handled types and, for
\* customer.subscription.updated, the event cancels at period end or renews a
\* cancelled subscription; every other event answered with 200 leaves the
\* status of its row as it was inserted. The row of a verified event is in
\* status 'error' only when the answer is 500.
C29_SuccessOnlyFromMarkingBranch ==
    Verified =>
        /\ response_status = 200 =>
              IF \/ event.type \in {"customer.subscription.created", "invoice.paid",
                                     "invoice.payment_failed",
                                     "customer.subscription.deleted"}
                 \/ /\ event.type = "customer.subscription.updated"
                    /\ \/ event.cancel_at_period_end = "True"
                       \/ event.cancel_at_period_end = "False" /\ event.renews
                 THEN processing_status = "success"
                 ELSE processing_status = "unset"
        /\ processing_status = "error" => response_status = 500

\* A subscription-created event is answered with 200 and marked 'success'
\* on the third attempt, after two failed ones.
C29_Witness ==
    /\ event.type = "customer.subscription.created"
    /\ retry_count = 2
    /\ response_status = 200
    /\ processing_status = "success"

\* C30: a verified event is processed at most 3 times; the handler answers 200
\* at the first attempt that succeeds; the row is 'retrying' after the first
\* and after the second failed attempt; after three failed attempts the row is
\* 'error' and the answer is 500.
C30_ThreeAttempts ==
    Verified =>
        /\ attempts <= max_retries
        /\ response_status = 200 => attempts = retry_count + 1
        /\ (wpc = "loop" /\ retry_count \in {1, 2}) => processing_status = "retrying"
        /\ response_status = 500
              => /\ attempts = max_retries
                 /\ retry_count = max_retries
                 /\ processing_status = "error"

====
